---- MODULE Spec2Model ----
(***************************************************************************)
(* Model of the scene selection of the Mission Impossible Supercut         *)
(* application (src/src/sequence_selection.py): filter_action_scenes,      *)
(* rank_scenes_by_action_intensity, ensure_action_diversity and the        *)
(* packing loop of select_sequences_for_supercut; and of the stage before  *)
(* it, process_video (src/src/main.py) with analyze_scene                  *)
(* (src/src/action_recognition.py); of process_multiple_videos and         *)
(* create_supercut of src/src/main.py, of VideoEditing.create_supercut     *)
(* (src/src/video_editing.py), and of the processing handlers of the       *)
(* window (src/src/gui.py).                                                *)
(*                                                                         *)
(* Numbers.  Durations, the target duration and confidences are floats in  *)
(* the source; here they are integers counted in one common unit, so the   *)
(* test  current + d > target * 1.2  is computed exactly as                *)
(* 5 * (current + d) > 6 * target.                                         *)
(*                                                                         *)
(* Identity.  A scene is a Python dict; two dicts with equal fields are    *)
(* still two objects.  The field scene_number (set by get_scene_info to    *)
(* the position of the scene in the detected list) is unique in every      *)
(* input list of the model and stands for the object's identity; in a     *)
(* batch of videos the pair of video_path and scene_number does.           *)
(***************************************************************************)
EXTENDS Integers, Sequences, FiniteSets, TLC

(***************************************************************************)
(* Bounds of the model                                                     *)
(***************************************************************************)
\* longest input scene list
MaxScenes == 3
\* largest target_duration
MaxTarget == 5
\* longest scene duration; the durations of the input scenes are 1..MaxDur
MaxDur == 2
Durations == 1..MaxDur
\* largest max_per_type and largest min_per_type of a direct call of
\* ensure_action_diversity
MaxPerType == 3
MaxMinPerType == 2
\* largest number of scenes of a direct call of ensure_action_diversity
MaxBalanced == 5
\* the confidence levels of the input scenes
Confidences == {1, 2}
\* the values of min_confidence: the last one is above every confidence
Thresholds == {1, 2, 3}
\* a level that stands for an action_confidence above 1.0
AboveOne == {3}
\* the action types of the input scenes
ActionTypes == {"chase", "fight"}

(***************************************************************************)
(* Sequence helpers (Python list operations)                               *)
(***************************************************************************)
Min(a, b) == IF a <= b THEN a ELSE b
Max(a, b) == IF a >= b THEN a ELSE b

\* s[:n] for n >= 0
Take(s, n) == SubSeq(s, 1, Min(n, Len(s)))
\* s[n:] for n >= 0
Drop(s, n) == SubSeq(s, Min(n, Len(s)) + 1, Len(s))

Reverse(s) == [i \in 1..Len(s) |-> s[Len(s) + 1 - i]]

\* Insert x into the ascending sequence s behind every element whose key is
\* not larger (a stable insertion).
RECURSIVE InsertStable(_, _)
InsertStable(x, s) ==
    IF s = <<>> THEN <<x>>
    ELSE IF Head(s).action_confidence <= x.action_confidence
         THEN <<Head(s)>> \o InsertStable(x, Tail(s))
         ELSE <<x>> \o s

\* list.sort by key action_confidence, ascending and stable
RECURSIVE SortAscending(_)
SortAscending(s) ==
    IF s = <<>> THEN <<>>
    ELSE InsertStable(s[Len(s)], SortAscending(SubSeq(s, 1, Len(s) - 1)))

\* sorted(s, key=action_confidence, reverse=True): Python reverses the list,
\* sorts it ascending and stable, and reverses the result.
SortedByConfidenceReverse(s) == Reverse(SortAscending(Reverse(s)))

(***************************************************************************)
(* filter_action_scenes                                                    *)
(***************************************************************************)
\* (mutant) the confidence test the wrong way round
KeepSceneBelow(scene, min_conf, min_dur, max_dur) ==
    /\ scene.is_action_scene
    /\ scene.action_confidence <= min_conf
    /\ min_dur <= scene.duration
    /\ scene.duration <= max_dur

\* (mutant) the duration bounds exclusive
KeepSceneStrict(scene, min_conf, min_dur, max_dur) ==
    /\ scene.is_action_scene
    /\ scene.action_confidence >= min_conf
    /\ min_dur < scene.duration
    /\ scene.duration < max_dur

\* the condition of the list comprehension
KeepScene(scene, min_conf, min_dur, max_dur) ==
    /\ scene.is_action_scene
    /\ scene.action_confidence >= min_conf
    /\ min_dur <= scene.duration
    /\ scene.duration <= max_dur

filter_action_scenes(ss, min_conf, min_dur, max_dur) ==
    LET Test(scene) == KeepScene(scene, min_conf, min_dur, max_dur)
    IN  SelectSeq(ss, Test)

(***************************************************************************)
(* rank_scenes_by_action_intensity                                         *)
(***************************************************************************)
\* (mutant) sorted(...)[::-1]: an ascending sort turned round, which turns
\* the scenes of equal confidence round as well
rank_by_reversed_ascending_sort(ss) == Reverse(SortAscending(ss))

rank_scenes_by_action_intensity(ss) == SortedByConfidenceReverse(ss)

(***************************************************************************)
(* ensure_action_diversity                                                 *)
(***************************************************************************)
\* max_per_type=None is the empty sequence, max_per_type=n is <<n>>
None == <<>>
Some(n) == <<n>>

\* the keys of scenes_by_type in insertion order: the action types in the
\* order of their first appearance
RECURSIVE TypeOrder(_)
TypeOrder(ss) ==
    IF ss = <<>> THEN <<>>
    ELSE LET init == TypeOrder(SubSeq(ss, 1, Len(ss) - 1))
             t == ss[Len(ss)].action_type
         IN  IF \E i \in 1..Len(init) : init[i] = t THEN init ELSE Append(init, t)

\* scenes_by_type[t] after the grouping loop
ScenesOfType(ss, t) ==
    LET Test(scene) == scene.action_type = t
    IN  SelectSeq(ss, Test)

\* (mutant) the average is computed without the test of len(type_counter)
AverageTakenUnguarded(ss, max_pt) == max_pt = None

\* lines 89-90: the conditions under which the average per type is computed
AverageTaken(ss, max_pt) == max_pt = None /\ Len(TypeOrder(ss)) > 0

\* (mutant) the average per type is taken as the limit, without the factor 1.5
EffectiveMaxIsAverage(ss, max_pt, min_pt) ==
    IF max_pt = None
    THEN LET K == Len(TypeOrder(ss))
         IN  IF K > 0
             THEN Max(Len(ss) \div K, min_pt + 1)
             ELSE Len(ss)
    ELSE max_pt[1]

\* the value of max_per_type after the "if max_per_type is None" block;
\* int(len(scenes) / len(type_counter) * 1.5) is floor(3 * N / (2 * K))
EffectiveMaxPerType(ss, max_pt, min_pt) ==
    IF max_pt = None
    THEN LET K == Len(TypeOrder(ss))
         IN  IF AverageTaken(ss, max_pt)
             THEN Max((3 * Len(ss)) \div (2 * K), min_pt + 1)
             ELSE Len(ss)
    ELSE max_pt[1]

\* line 91 divides len(scenes) by len(type_counter): ZeroDivisionError when it
\* runs on no action type
DiversityRaises(ss, max_pt) ==
    AverageTaken(ss, max_pt) /\ Len(TypeOrder(ss)) = 0

\* first loop: per type, in insertion order, the min_per_type best scenes are
\* appended to balanced_scenes
RECURSIVE FloorPass(_, _, _)
FloorPass(ss, types, min_pt) ==
    IF types = <<>> THEN <<>>
    ELSE Take(SortedByConfidenceReverse(ScenesOfType(ss, Head(types))), min_pt)
         \o FloorPass(ss, Tail(types), min_pt)

\* (mutant) the scenes of the first loop are put in confidence order
PhaseASorted(ss, min_pt) ==
    SortedByConfidenceReverse(FloorPass(ss, TypeOrder(ss), min_pt))

PhaseA(ss, min_pt) == FloorPass(ss, TypeOrder(ss), min_pt)

\* (mutant) the first loop does not take its scenes out of scenes_by_type, so
\* the second loop starts again from the best scene of each type
RECURSIVE CeilingPassKeepsFloor(_, _, _, _)
CeilingPassKeepsFloor(ss, types, can_add, min_pt) ==
    IF types = <<>> THEN <<>>
    ELSE (IF can_add > 0
          THEN Take(SortedByConfidenceReverse(ScenesOfType(ss, Head(types))), can_add)
          ELSE <<>>)
         \o CeilingPassKeepsFloor(ss, Tail(types), can_add, min_pt)

\* second loop: per type, in insertion order, the next can_add scenes of
\* what the first loop left are appended to remaining_scenes
RECURSIVE CeilingPass(_, _, _, _)
CeilingPass(ss, types, can_add, min_pt) ==
    IF types = <<>> THEN <<>>
    ELSE (IF can_add > 0
          THEN Take(Drop(SortedByConfidenceReverse(ScenesOfType(ss, Head(types))),
                         min_pt), can_add)
          ELSE <<>>)
         \o CeilingPass(ss, Tail(types), can_add, min_pt)

\* (mutant) the second loop takes max_per_type more scenes, not
\* max_per_type - min_per_type
PhaseBTakesMax(ss, max_eff, min_pt) ==
    SortedByConfidenceReverse(CeilingPass(ss, TypeOrder(ss), max_eff, min_pt))

\* (mutant) remaining_scenes is appended as the second loop left it, without
\* the sort by confidence
PhaseBUnsorted(ss, max_eff, min_pt) ==
    CeilingPass(ss, TypeOrder(ss), max_eff - min_pt, min_pt)

\* remaining_scenes after the final sort by confidence
PhaseB(ss, max_eff, min_pt) ==
    SortedByConfidenceReverse(CeilingPass(ss, TypeOrder(ss), max_eff - min_pt, min_pt))

\* (mutant) the balanced list is sorted by confidence as a whole before it is
\* returned
diversity_sorted_as_a_whole(ss, max_pt, min_pt) ==
    SortedByConfidenceReverse(
        PhaseA(ss, min_pt) \o PhaseB(ss, EffectiveMaxPerType(ss, max_pt, min_pt), min_pt))

ensure_action_diversity(ss, max_pt, min_pt) ==
    PhaseA(ss, min_pt) \o PhaseB(ss, EffectiveMaxPerType(ss, max_pt, min_pt), min_pt)

(***************************************************************************)
(* The packing loop of select_sequences_for_supercut                       *)
(***************************************************************************)
\* (mutant) the test leaves out the duration of the scene
ExceedsToleranceAlready(current, scene_duration, target) ==
    5 * current > 6 * target

\* (mutant) the test without the tolerance of 20 percent
ExceedsTargetItself(current, scene_duration, target) ==
    current + scene_duration > target

\* current_duration + scene_duration > target_duration * 1.2
ExceedsTolerance(current, scene_duration, target) ==
    5 * (current + scene_duration) > 6 * target

\* (mutant) the walk stops only above the target
ReachedTargetStrict(current, target) == current > target

\* current_duration >= target_duration
ReachedTarget(current, target) == current >= target

\* (mutant) final_selection.insert(0, scene)
AcceptSceneAtFront(selection, scene) == <<scene>> \o selection

\* final_selection.append(scene)
AcceptScene(selection, scene) == Append(selection, scene)

(***************************************************************************)
(* State                                                                   *)
(***************************************************************************)
VARIABLES
    scenes,             \* the argument scenes of the running call
    target_duration,    \* the arguments of select_sequences_for_supercut
    min_confidence,
    min_duration,
    max_duration,
    ensure_diversity,
    max_per_type,
    min_per_type,       \* the argument of ensure_action_diversity
    pc,                 \* the position of the running call
    filtered_scenes,    \* the locals of select_sequences_for_supercut
    ranked_scenes,
    selected_scenes,
    final_selection,
    current_duration,
    idx,                \* position of the for loop in selected_scenes
    run,                \* 1: the first call, 2: the call that follows it
    first_selection,    \* the list the first call returned
    first_diversity,    \* ensure_diversity of the first call
    video_path,         \* the argument of process_video
    scene_info,         \* the locals of process_video
    processed_scenes,
    classify_calls,     \* the calls of classify_action of the last analyze_scene
    video_paths,        \* the argument of process_multiple_videos
    all_processed_scenes,   \* its local
    supercut_path,      \* what create_supercut returned
    process_button,     \* the state of the two buttons of the window
    cancel_button,
    threads,            \* the processing threads started so far
    after_queue,        \* the callbacks handed to root.after, oldest first
    gui_supercut_path,  \* self.supercut_path of the window
    segments,           \* the arguments of VideoEditing.create_supercut
    add_transitions,
    normalize_audio,
    add_title,
    clips,              \* its locals
    concatenated        \* the list handed to concatenate_videoclips

args == <<target_duration, min_confidence, min_duration, max_duration,
          ensure_diversity, max_per_type, min_per_type>>
locals == <<filtered_scenes, ranked_scenes, selected_scenes, final_selection,
            current_duration, idx>>
first == <<run, first_selection, first_diversity>>
resolver == <<video_path, scene_info, processed_scenes, classify_calls>>
batch == <<video_paths, all_processed_scenes, supercut_path>>
gui == <<process_button, cancel_button, threads, after_queue, gui_supercut_path>>
editing == <<segments, add_transitions, normalize_audio, add_title, clips,
             concatenated>>
others == <<batch, gui, editing>>
vars == <<scenes, args, pc, locals, first, resolver, others>>

\* the scene lists of at most max scenes whose action type, confidence,
\* duration and is_action_scene flag are drawn from types, confs, durs and acts
SceneListsUpTo(max, types, confs, durs, acts) ==
    UNION { { [i \in 1..n |->
                [scene_number |-> i,
                 action_type |-> f[i][1],
                 action_confidence |-> f[i][2],
                 duration |-> f[i][3],
                 is_action_scene |-> f[i][4]]]
              : f \in [1..n -> types \X confs \X durs \X acts] }
            : n \in 0..max }

\* the scene lists of at most MaxScenes scenes with the durations of the model
SceneLists(types, confs, acts) ==
    SceneListsUpTo(MaxScenes, types, confs, Durations, acts)

\* no video has been processed
NoVideo ==
    /\ video_path = 1
    /\ scene_info = <<>>
    /\ processed_scenes = <<>>
    /\ classify_calls = <<>>

\* no batch is running
NoBatch ==
    /\ video_paths = <<>>
    /\ all_processed_scenes = <<>>
    /\ supercut_path = "unset"

\* no window is open
NoGui ==
    /\ process_button = "normal"
    /\ cancel_button = "disabled"
    /\ threads = <<>>
    /\ after_queue = <<>>
    /\ gui_supercut_path = "unset"

\* the editor has not been called
NoEditing ==
    /\ segments = <<>>
    /\ add_transitions = FALSE
    /\ normalize_audio = FALSE
    /\ add_title = FALSE
    /\ clips = <<>>
    /\ concatenated = <<>>

NoLocals ==
    /\ filtered_scenes = <<>>
    /\ ranked_scenes = <<>>
    /\ selected_scenes = <<>>
    /\ final_selection = <<>>
    /\ current_duration = 0
    /\ idx = 1

(***************************************************************************)
(* select_sequences_for_supercut, stage by stage                           *)
(***************************************************************************)
\* A call of select_sequences_for_supercut as create_supercut makes it:
\* max_per_type is not passed, min_duration and max_duration admit every
\* duration of the model.
Init ==
    /\ scenes \in SceneLists(ActionTypes, Confidences, {TRUE})
    /\ target_duration \in 0..MaxTarget
    /\ min_confidence \in Confidences
    /\ min_duration = 1
    /\ max_duration = MaxDur
    /\ ensure_diversity \in BOOLEAN
    /\ max_per_type = None
    /\ min_per_type = 1
    /\ pc = "filter"
    /\ NoLocals
    /\ run = 1
    /\ first_selection = <<>>
    /\ first_diversity = FALSE
    /\ NoVideo
    /\ NoBatch
    /\ NoGui
    /\ NoEditing

\* (mutant) the filter removes the rejected scenes from the caller's list
FilterStageInPlace ==
    /\ pc = "filter"
    /\ filtered_scenes' = filter_action_scenes(scenes, min_confidence,
                                               min_duration, max_duration)
    /\ scenes' = filtered_scenes'
    /\ pc' = IF filtered_scenes' = <<>> THEN "done" ELSE "rank"
    /\ UNCHANGED <<args, ranked_scenes, selected_scenes, final_selection,
                   current_duration, idx, first, resolver, others>>

\* lines 154-160: filter, and return [] when nothing is left
FilterStage ==
    /\ pc = "filter"
    /\ filtered_scenes' = filter_action_scenes(scenes, min_confidence,
                                               min_duration, max_duration)
    /\ pc' = IF filtered_scenes' = <<>> THEN "done" ELSE "rank"
    /\ UNCHANGED <<scenes, args, ranked_scenes, selected_scenes, final_selection,
                   current_duration, idx, first, resolver, others>>

\* line 163
RankStage ==
    /\ pc = "rank"
    /\ ranked_scenes' = rank_scenes_by_action_intensity(filtered_scenes)
    /\ pc' = "diversity"
    /\ UNCHANGED <<scenes, args, filtered_scenes, selected_scenes, final_selection,
                   current_duration, idx, first, resolver, others>>

\* (mutant) the balancer runs whatever ensure_diversity says
DiversityStageAlways ==
    /\ pc = "diversity"
    /\ selected_scenes' = ensure_action_diversity(ranked_scenes, max_per_type,
                                                  min_per_type)
    /\ final_selection' = <<>>
    /\ current_duration' = 0
    /\ idx' = 1
    /\ pc' = "pack"
    /\ UNCHANGED <<scenes, args, filtered_scenes, ranked_scenes, first, resolver, others>>

\* lines 166-173: the balancer or its bypass, and the set-up of the loop
DiversityStage ==
    /\ pc = "diversity"
    /\ IF ensure_diversity /\ DiversityRaises(ranked_scenes, max_per_type)
       THEN /\ pc' = "raised"
            /\ UNCHANGED <<selected_scenes, final_selection, current_duration, idx>>
       ELSE /\ selected_scenes' = IF ensure_diversity
                                  THEN ensure_action_diversity(ranked_scenes,
                                                               max_per_type,
                                                               min_per_type)
                                  ELSE ranked_scenes
            /\ final_selection' = <<>>
            /\ current_duration' = 0
            /\ idx' = 1
            /\ pc' = "pack"
    /\ UNCHANGED <<scenes, args, filtered_scenes, ranked_scenes, first, resolver, others>>

\* (mutant) break where the loop has continue
PackSkipBreaks ==
    /\ pc = "pack"
    /\ idx <= Len(selected_scenes)
    /\ ExceedsTolerance(current_duration, selected_scenes[idx].duration,
                        target_duration)
    /\ idx' = idx + 1
    /\ pc' = "done"
    /\ UNCHANGED <<scenes, args, filtered_scenes, ranked_scenes, selected_scenes,
                   final_selection, current_duration, first, resolver, others>>

\* lines 175-180: the scene at idx would exceed the tolerance: continue
PackSkip ==
    /\ pc = "pack"
    /\ idx <= Len(selected_scenes)
    /\ ExceedsTolerance(current_duration, selected_scenes[idx].duration,
                        target_duration)
    /\ idx' = idx + 1
    /\ UNCHANGED <<scenes, args, pc, filtered_scenes, ranked_scenes, selected_scenes,
                   final_selection, current_duration, first, resolver, others>>

\* lines 182-187: accept the scene at idx; break when the target is reached
PackAccept ==
    /\ pc = "pack"
    /\ idx <= Len(selected_scenes)
    /\ ~ExceedsTolerance(current_duration, selected_scenes[idx].duration,
                         target_duration)
    /\ final_selection' = AcceptScene(final_selection, selected_scenes[idx])
    /\ current_duration' = current_duration + selected_scenes[idx].duration
    /\ idx' = idx + 1
    /\ pc' = IF ReachedTarget(current_duration', target_duration) THEN "done" ELSE "pack"
    /\ UNCHANGED <<scenes, args, filtered_scenes, ranked_scenes, selected_scenes,
                   first, resolver, others>>

\* (mutant) the loop ends one scene early
PackReturnEarly ==
    /\ pc = "pack"
    /\ idx >= Len(selected_scenes)
    /\ pc' = "done"
    /\ UNCHANGED <<scenes, args, locals, first, resolver, others>>

\* lines 175, 189-192: the list is exhausted: return final_selection
PackReturn ==
    /\ pc = "pack"
    /\ idx > Len(selected_scenes)
    /\ pc' = "done"
    /\ UNCHANGED <<scenes, args, locals, first, resolver, others>>

\* The caller feeds the returned list to a second call with the same
\* target_duration, ensure_diversity=False and filters that admit every scene.
Resubmit ==
    /\ pc = "done"
    /\ run = 1
    /\ first_selection' = final_selection
    /\ first_diversity' = ensure_diversity
    /\ scenes' = final_selection
    /\ ensure_diversity' = FALSE
    /\ min_confidence' = 0
    /\ min_duration' = 0
    /\ run' = 2
    /\ pc' = "filter"
    /\ filtered_scenes' = <<>>
    /\ ranked_scenes' = <<>>
    /\ selected_scenes' = <<>>
    /\ final_selection' = <<>>
    /\ current_duration' = 0
    /\ idx' = 1
    /\ UNCHANGED <<target_duration, max_duration, max_per_type, min_per_type,
                   resolver, others>>

Next ==
    \/ FilterStage
    \/ RankStage
    \/ DiversityStage
    \/ PackSkip
    \/ PackAccept
    \/ PackReturn
    \/ Resubmit

Spec == Init /\ [][Next]_vars

\* A call of select_sequences_for_supercut on scene records as any caller may
\* pass them: action_confidence is read as it is, also a value above 1.0.
InitUnchecked ==
    /\ scenes \in SceneLists({"chase"}, Confidences \cup AboveOne, {TRUE})
    /\ target_duration \in 0..MaxTarget
    /\ min_confidence \in Confidences
    /\ min_duration = 1
    /\ max_duration = MaxDur
    /\ ensure_diversity \in BOOLEAN
    /\ max_per_type = None
    /\ min_per_type = 1
    /\ pc = "filter"
    /\ NoLocals
    /\ run = 1
    /\ first_selection = <<>>
    /\ first_diversity = FALSE
    /\ NoVideo
    /\ NoBatch
    /\ NoGui
    /\ NoEditing

SpecUnchecked == InitUnchecked /\ [][Next]_vars

\* one iteration of the for loop, or its end
PackStep == PackSkip \/ PackAccept \/ PackReturn

\* The calls whose scenes all have the highest confidence.  The walk reads
\* the durations and the target only, and these calls already lead it over
\* every list of durations, in ranked and in balanced order.
InitWalk ==
    /\ Init
    /\ min_confidence = 1
    /\ \A i \in 1..Len(scenes) : scenes[i].action_confidence = 2

\* The loop is sequential code: while an iteration is possible, one is taken.
FairSpec == InitWalk /\ [][Next]_vars /\ WF_vars(PackStep)

(***************************************************************************)
(* Direct calls of the three stage functions                               *)
(***************************************************************************)
NoCallYet ==
    /\ target_duration = 0
    /\ ensure_diversity = FALSE
    /\ NoLocals
    /\ run = 1
    /\ first_selection = <<>>
    /\ first_diversity = FALSE
    /\ NoVideo
    /\ NoBatch
    /\ NoGui
    /\ NoEditing

\* filter_action_scenes(scenes, min_confidence, min_duration, max_duration)
InitFilter ==
    /\ scenes \in SceneLists({"chase"}, Confidences, BOOLEAN)
    /\ min_confidence \in Thresholds
    /\ min_duration \in Durations
    /\ max_duration \in Durations
    /\ max_per_type = None
    /\ min_per_type = 1
    /\ pc = "call_filter"
    /\ NoCallYet

CallFilter ==
    /\ pc = "call_filter"
    /\ filtered_scenes' = filter_action_scenes(scenes, min_confidence,
                                               min_duration, max_duration)
    /\ pc' = "returned"
    /\ UNCHANGED <<scenes, args, ranked_scenes, selected_scenes, final_selection,
                   current_duration, idx, first, resolver, others>>

\* a second call on the same scenes with min_confidence raised or left as it is
CallFilterRaised ==
    /\ pc = "returned"
    /\ run = 1
    /\ \E c \in Thresholds :
        /\ c >= min_confidence
        /\ min_confidence' = c
        /\ filtered_scenes' = filter_action_scenes(scenes, c, min_duration,
                                                   max_duration)
    /\ first_selection' = filtered_scenes
    /\ run' = 2
    /\ UNCHANGED <<scenes, target_duration, min_duration, max_duration,
                   ensure_diversity, max_per_type, min_per_type, pc, ranked_scenes,
                   selected_scenes, final_selection, current_duration, idx,
                   first_diversity, resolver, others>>

NextFilter == CallFilter \/ CallFilterRaised

SpecFilter == InitFilter /\ [][NextFilter]_vars

\* rank_scenes_by_action_intensity(scenes)
InitRank ==
    /\ scenes \in SceneLists(ActionTypes, Confidences, {TRUE})
    /\ min_confidence = 1
    /\ min_duration = 1
    /\ max_duration = MaxDur
    /\ max_per_type = None
    /\ min_per_type = 1
    /\ pc = "call_rank"
    /\ NoCallYet

CallRank ==
    /\ pc = "call_rank"
    /\ ranked_scenes' = rank_scenes_by_action_intensity(scenes)
    /\ pc' = "returned"
    /\ UNCHANGED <<scenes, args, filtered_scenes, selected_scenes, final_selection,
                   current_duration, idx, first, resolver, others>>

NextRank == CallRank

SpecRank == InitRank /\ [][NextRank]_vars

\* ensure_action_diversity(scenes, max_per_type, min_per_type); the balancer
\* does not read the durations
InitDiversity ==
    /\ scenes \in SceneListsUpTo(MaxBalanced, ActionTypes, Confidences,
                                 {MaxDur}, {TRUE})
    /\ min_confidence = 1
    /\ min_duration = 1
    /\ max_duration = MaxDur
    /\ max_per_type \in {None} \cup { Some(n) : n \in 0..MaxPerType }
    /\ min_per_type \in 0..MaxMinPerType
    /\ pc = "call_diversity"
    /\ NoCallYet

CallDiversity ==
    /\ pc = "call_diversity"
    /\ IF DiversityRaises(scenes, max_per_type)
       THEN /\ pc' = "raised"
            /\ UNCHANGED selected_scenes
       ELSE /\ selected_scenes' = ensure_action_diversity(scenes, max_per_type,
                                                          min_per_type)
            /\ pc' = "returned"
    /\ UNCHANGED <<scenes, args, filtered_scenes, ranked_scenes, final_selection,
                   current_duration, idx, first, resolver, others>>

NextDiversity == CallDiversity

SpecDiversity == InitDiversity /\ [][NextDiversity]_vars

(***************************************************************************)
(* process_video and analyze_scene                                         *)
(***************************************************************************)
\* largest number of scenes the detector reports for a video
MaxDetected == 2
\* the lengths in seconds of the detected scenes: one below, one above the
\* threshold of analyze_scene
SceneLengths == {4, 11}

\* the 10.0 of the test of the scene length
SplitThreshold == 10
segment_duration == 5
\* while current_time < end_time - 1.0
MinSegment == 1

\* what classify_action returns when no frames could be read: a result
\* without all_scores
Unknown == [action_type |-> "unknown", confidence |-> 0, is_action |-> FALSE]

\* what classify_action returns after inference; is_action = confidence > 0.3,
\* where the confidence level 1 stands for a confidence of at most 0.3
Classified(t, c) ==
    [action_type |-> t,
     confidence |-> c,
     is_action |-> c > 1,
     all_scores |-> [a \in ActionTypes |-> IF a = t THEN c ELSE 0]]

ClassifierResults ==
    {Unknown} \cup { Classified(t, c) : t \in ActionTypes, c \in Confidences }

\* the scene boundaries the detector reports: consecutive scenes from 0 on
RECURSIVE Boundaries(_, _)
Boundaries(lengths, start) ==
    IF lengths = <<>> THEN <<>>
    ELSE <<<<start, start + Head(lengths)>>>>
         \o Boundaries(Tail(lengths), start + Head(lengths))

DetectedSceneLists ==
    { Boundaries(lengths, 0) :
        lengths \in UNION { [1..n -> SceneLengths] : n \in 0..MaxDetected } }

get_scene_info(scene_list) ==
    [i \in 1..Len(scene_list) |->
        [scene_number |-> i,
         start_time |-> scene_list[i][1],
         end_time |-> scene_list[i][2],
         duration |-> scene_list[i][2] - scene_list[i][1]]]

\* the segments of a long scene
RECURSIVE Segments(_, _)
Segments(current_time, end_time) ==
    IF current_time < end_time - MinSegment
    THEN LET segment_end == Min(current_time + segment_duration, end_time)
         IN  <<<<current_time, segment_end>>>> \o Segments(segment_end, end_time)
    ELSE <<>>

\* if scene_info['duration'] > 10.0
IsLongScene(scene) == scene.duration > SplitThreshold

\* the number of calls of classify_action that analyze_scene makes
Classifications(scene) ==
    IF IsLongScene(scene) THEN Len(Segments(scene.start_time, scene.end_time)) ELSE 1

\* the calls of classify_action that analyze_scene makes, with the results
\* they return: one per segment of a long scene, one for a shorter scene
ClassifyCalls(scene, results) ==
    IF IsLongScene(scene)
    THEN LET segs == Segments(scene.start_time, scene.end_time)
         IN  [k \in 1..Len(segs) |->
                 [start_time |-> segs[k][1], end_time |-> segs[k][2],
                  result |-> results[k]]]
    ELSE <<[start_time |-> scene.start_time, end_time |-> scene.end_time,
            result |-> results[1]]>>

\* max(segment_results, key=lambda x: x['confidence']): the first result of
\* the highest confidence
RECURSIVE BestSegment(_)
BestSegment(segment_results) ==
    IF Len(segment_results) = 1 THEN segment_results[1]
    ELSE LET best == BestSegment(Tail(segment_results))
         IN  IF Head(segment_results).confidence >= best.confidence
             THEN Head(segment_results)
             ELSE best

\* analyze_scene raises: max() of no segment result (ValueError), or
\* result['all_scores'] of a result that has none (KeyError)
AnalyzeRaises(scene, results) ==
    IF IsLongScene(scene)
    THEN results = <<>>
    ELSE "all_scores" \notin DOMAIN results[1]

\* (mutant) the scene takes the time range of a segment as well
analyze_scene_retimed(scene, results) ==
    IF IsLongScene(scene)
    THEN LET best_segment == BestSegment(results)
         IN  [action_type |-> best_segment.action_type,
              action_confidence |-> best_segment.confidence,
              is_action_scene |-> best_segment.is_action,
              segment_results |-> results,
              end_time |-> scene.start_time + segment_duration,
              duration |-> segment_duration] @@ scene
    ELSE [action_type |-> results[1].action_type,
          action_confidence |-> results[1].confidence,
          is_action_scene |-> results[1].is_action,
          all_scores |-> results[1].all_scores] @@ scene

\* scene_info.update(...): the scene with its classification
analyze_scene(scene, results) ==
    IF IsLongScene(scene)
    THEN LET best_segment == BestSegment(results)
         IN  [action_type |-> best_segment.action_type,
              action_confidence |-> best_segment.confidence,
              is_action_scene |-> best_segment.is_action,
              segment_results |-> results] @@ scene
    ELSE [action_type |-> results[1].action_type,
          action_confidence |-> results[1].confidence,
          is_action_scene |-> results[1].is_action,
          all_scores |-> results[1].all_scores] @@ scene

\* a call of process_video
InitVideo ==
    /\ scenes = <<>>
    /\ min_confidence = 1
    /\ min_duration = 1
    /\ max_duration = MaxDur
    /\ max_per_type = None
    /\ min_per_type = 1
    /\ pc = "process_video"
    /\ NoCallYet

\* lines 72-75: add_video rejects the file: return []
AddVideoFails ==
    /\ pc = "process_video"
    /\ pc' = "returned"
    /\ UNCHANGED <<scenes, args, locals, first, resolver, others>>

\* lines 77-95: detect the scenes, return [] when there are none, else build
\* scene_info and give every scene its video_path
DetectScenes ==
    /\ pc = "process_video"
    /\ \E scene_list \in DetectedSceneLists :
        IF scene_list = <<>>
        THEN /\ pc' = "returned"
             /\ UNCHANGED resolver
        ELSE /\ scene_info' = [i \in 1..Len(scene_list) |->
                                  [video_path |-> video_path]
                                      @@ get_scene_info(scene_list)[i]]
             /\ processed_scenes' = <<>>
             /\ pc' = "analyze"
             /\ UNCHANGED <<video_path, classify_calls>>
    /\ UNCHANGED <<scenes, args, locals, first, others>>

\* lines 98-101: one iteration of the loop.  analyze_scene updates the scene
\* record of scene_info in place and returns it
AnalyzeNext ==
    /\ pc = "analyze"
    /\ Len(processed_scenes) < Len(scene_info)
    /\ LET i == Len(processed_scenes) + 1
           scene == scene_info[i]
       IN  \E results \in [1..Classifications(scene) -> ClassifierResults] :
               /\ classify_calls' = ClassifyCalls(scene, results)
               /\ IF AnalyzeRaises(scene, results)
                  THEN /\ pc' = "raised"
                       /\ UNCHANGED <<scene_info, processed_scenes>>
                  ELSE /\ scene_info' = [scene_info EXCEPT
                                            ![i] = analyze_scene(scene, results)]
                       /\ processed_scenes' = Append(processed_scenes,
                                                     analyze_scene(scene, results))
                       /\ pc' = "analyze"
    /\ UNCHANGED video_path
    /\ UNCHANGED <<scenes, args, locals, first, others>>

\* lines 98, 103-112: the loop is over: save and return processed_scenes
ProcessVideoReturn ==
    /\ pc = "analyze"
    /\ Len(processed_scenes) = Len(scene_info)
    /\ pc' = "returned"
    /\ UNCHANGED <<scenes, args, locals, first, resolver, others>>

NextVideo ==
    \/ AddVideoFails
    \/ DetectScenes
    \/ AnalyzeNext
    \/ ProcessVideoReturn

SpecVideo == InitVideo /\ [][NextVideo]_vars

(***************************************************************************)
(* Direct calls of analyze_scene                                           *)
(***************************************************************************)
\* the scenes handed to analyze_scene: they start at AnalyzeStarts and last
\* AnalyzeLengths seconds; the duration field is end_time - start_time, or,
\* for a scene of at most a second, a larger value of StaleDurations
AnalyzeStarts == {0, 3}
AnalyzeLengths == {1, 10, 11, 12, 16}
StaleDurations == {11}

AnalyzeArguments ==
    { [scene_number |-> 1,
       video_path |-> 1,
       start_time |-> s,
       end_time |-> s + l,
       duration |-> d] :
        s \in AnalyzeStarts,
        l \in AnalyzeLengths,
        d \in AnalyzeLengths \cup StaleDurations }

\* analyze_scene(video_path, scene_info) is about to be called
InitAnalyze ==
    /\ scenes = <<>>
    /\ min_confidence = 1
    /\ min_duration = 1
    /\ max_duration = MaxDur
    /\ max_per_type = None
    /\ min_per_type = 1
    /\ target_duration = 0
    /\ ensure_diversity = FALSE
    /\ NoLocals
    /\ run = 1
    /\ first_selection = <<>>
    /\ first_diversity = FALSE
    /\ video_path = 1
    /\ \E scene \in AnalyzeArguments :
        /\ \/ scene.duration = scene.end_time - scene.start_time
           \/ /\ scene.end_time - scene.start_time <= MinSegment
              /\ scene.duration \in StaleDurations
        /\ scene_info = <<scene>>
    /\ processed_scenes = <<>>
    /\ classify_calls = <<>>
    /\ NoBatch
    /\ NoGui
    /\ NoEditing
    /\ pc = "analyze_scene"

\* the call: the classifications are made, then either max() or
\* result['all_scores'] raises, or the scene record is updated in place and
\* returned
CallAnalyze ==
    /\ pc = "analyze_scene"
    /\ LET scene == scene_info[1]
       IN  \E results \in [1..Classifications(scene) -> ClassifierResults] :
               /\ classify_calls' = ClassifyCalls(scene, results)
               /\ IF AnalyzeRaises(scene, results)
                  THEN /\ pc' = "raised"
                       /\ UNCHANGED <<scene_info, processed_scenes>>
                  ELSE /\ scene_info' = <<analyze_scene(scene, results)>>
                       /\ processed_scenes' = <<analyze_scene(scene, results)>>
                       /\ pc' = "returned"
    /\ UNCHANGED <<video_path, scenes, args, locals, first, others>>

NextAnalyze == CallAnalyze

SpecAnalyze == InitAnalyze /\ [][NextAnalyze]_vars

(***************************************************************************)
(* The window: process_videos, its thread and cancel_processing            *)
(***************************************************************************)
\* largest number of videos in a list of videos
MaxVideos == 2
\* largest number of processing threads started while the window is open
MaxStarts == 3

\* what process_multiple_videos returns: the path of the supercut or None
SupercutPaths == {"path", "none"}

\* the window after __init__: no videos, no thread, supercut_path = None,
\* the Process button enabled and the Cancel button disabled
InitGui ==
    /\ scenes = <<>>
    /\ min_confidence = 1
    /\ min_duration = 1
    /\ max_duration = MaxDur
    /\ max_per_type = None
    /\ min_per_type = 1
    /\ target_duration = 0
    /\ ensure_diversity = FALSE
    /\ NoLocals
    /\ run = 1
    /\ first_selection = <<>>
    /\ first_diversity = FALSE
    /\ NoVideo
    /\ video_paths = <<>>
    /\ all_processed_scenes = <<>>
    /\ supercut_path = "unset"
    /\ process_button = "normal"
    /\ cancel_button = "disabled"
    /\ threads = <<>>
    /\ after_queue = <<>>
    /\ gui_supercut_path = "none"
    /\ NoEditing
    /\ pc = "mainloop"

\* add_videos: a file that is not in the list yet is appended
AddVideos ==
    /\ pc = "mainloop"
    /\ Len(video_paths) < MaxVideos
    /\ video_paths' = Append(video_paths, Len(video_paths) + 1)
    /\ UNCHANGED <<scenes, args, pc, locals, first, resolver, all_processed_scenes,
                   supercut_path, gui, editing>>

\* clear_videos
ClearVideos ==
    /\ pc = "mainloop"
    /\ video_paths # <<>>
    /\ video_paths' = <<>>
    /\ UNCHANGED <<scenes, args, pc, locals, first, resolver, all_processed_scenes,
                   supercut_path, gui, editing>>

\* a click on the Process button, which is possible while the button is
\* enabled: process_videos returns after a warning when there is no video,
\* else it disables the button, enables Cancel and starts a thread
ClickProcess ==
    /\ pc = "mainloop"
    /\ process_button = "normal"
    /\ Len(threads) < MaxStarts
    /\ IF video_paths = <<>>
       THEN UNCHANGED gui
       ELSE /\ process_button' = "disabled"
            /\ cancel_button' = "normal"
            /\ threads' = Append(threads, "alive")
            /\ UNCHANGED <<after_queue, gui_supercut_path>>
    /\ UNCHANGED <<scenes, args, pc, locals, first, resolver, batch, editing>>

\* a click on the Cancel button: cancel_processing does not stop the thread,
\* it sets the two buttons back
ClickCancel ==
    /\ pc = "mainloop"
    /\ cancel_button = "normal"
    /\ process_button' = "normal"
    /\ cancel_button' = "disabled"
    /\ UNCHANGED <<scenes, args, pc, locals, first, resolver, batch, editing,
                   threads, after_queue, gui_supercut_path>>

\* process_videos_thread: process_multiple_videos returns, its result is
\* stored in self.supercut_path and processing_complete is scheduled
ThreadReturns ==
    /\ pc = "mainloop"
    /\ \E t \in 1..Len(threads) :
        /\ threads[t] = "alive"
        /\ \E path \in SupercutPaths : gui_supercut_path' = path
        /\ threads' = [threads EXCEPT ![t] = "finished"]
        /\ after_queue' = Append(after_queue, "processing_complete")
    /\ UNCHANGED <<scenes, args, pc, locals, first, resolver, batch, editing,
                   process_button, cancel_button>>

\* process_videos_thread: process_multiple_videos raises and
\* processing_error is scheduled
ThreadRaises ==
    /\ pc = "mainloop"
    /\ \E t \in 1..Len(threads) :
        /\ threads[t] = "alive"
        /\ threads' = [threads EXCEPT ![t] = "finished"]
        /\ after_queue' = Append(after_queue, "processing_error")
    /\ UNCHANGED <<scenes, args, pc, locals, first, resolver, batch, editing,
                   process_button, cancel_button, gui_supercut_path>>

\* the main loop runs the oldest scheduled callback: processing_complete and
\* processing_error both enable Process and disable Cancel
RunCallback ==
    /\ pc = "mainloop"
    /\ after_queue # <<>>
    /\ after_queue' = Tail(after_queue)
    /\ process_button' = "normal"
    /\ cancel_button' = "disabled"
    /\ UNCHANGED <<scenes, args, pc, locals, first, resolver, batch, editing,
                   threads, gui_supercut_path>>

NextGui ==
    \/ AddVideos
    \/ ClearVideos
    \/ ClickProcess
    \/ ClickCancel
    \/ ThreadReturns
    \/ ThreadRaises
    \/ RunCallback

SpecGui == InitGui /\ [][NextGui]_vars

(***************************************************************************)
(* VideoEditing.create_supercut                                            *)
(***************************************************************************)
\* largest number of segments handed to the editor
MaxSegments == 3

\* the segment lists of get_supercut_segments: the i-th segment is cut from
\* second i to second i + 1 of one of the videos
SegmentLists ==
    UNION { { [i \in 1..n |->
                [video_path |-> f[i][1],
                 start_time |-> i,
                 end_time |-> i + 1,
                 action_type |-> f[i][2]]]
              : f \in [1..n -> (1..MaxVideos) \X ActionTypes] }
            : n \in 0..MaxSegments }

\* extract_clip, normalize_audio and add_text_overlay: the clip of the i-th
\* segment as it is appended to clips; the clips have an audio track
ExtractedClip(i, segment, normalize, title) ==
    [segment |-> i,
     video_path |-> segment.video_path,
     start_time |-> segment.start_time,
     end_time |-> segment.end_time,
     normalized |-> normalize,
     title |-> IF title THEN <<segment.video_path, segment.action_type>> ELSE <<>>,
     fadein |-> FALSE,
     fadeout |-> FALSE]

\* the loop over the segments: a segment whose clip cannot be extracted is
\* skipped
RECURSIVE ExtractLoop(_, _, _, _, _)
ExtractLoop(segs, i, extracted, normalize, title) ==
    IF i > Len(segs) THEN <<>>
    ELSE (IF extracted[i]
          THEN <<ExtractedClip(i, segs[i], normalize, title)>>
          ELSE <<>>)
         \o ExtractLoop(segs, i + 1, extracted, normalize, title)

\* add_transition(clip1, clip2, "fade", 0.5) for two clips that exist:
\* clip1.fx(vfx.fadeout, duration) and clip2.fx(vfx.fadein, duration)
add_transition(clip1, clip2) ==
    <<[clip1 EXCEPT !.fadeout = TRUE], [clip2 EXCEPT !.fadein = TRUE]>>

\* for i in range(len(clips) - 1): both clips of the first transition are
\* kept, of every later one the second clip only
RECURSIVE TransitionLoop(_, _, _)
TransitionLoop(cl, i, clips_with_transitions) ==
    IF i > Len(cl) - 1 THEN clips_with_transitions
    ELSE LET transition_clips == add_transition(cl[i], cl[i + 1])
         IN  TransitionLoop(cl, i + 1,
                 IF i = 1
                 THEN clips_with_transitions \o transition_clips
                 ELSE Append(clips_with_transitions, transition_clips[2]))

\* create_supercut(segments, add_transitions, normalize_audio, add_title) is
\* about to be called
InitEditing ==
    /\ scenes = <<>>
    /\ min_confidence = 1
    /\ min_duration = 1
    /\ max_duration = MaxDur
    /\ max_per_type = None
    /\ min_per_type = 1
    /\ target_duration = 0
    /\ ensure_diversity = FALSE
    /\ NoLocals
    /\ run = 1
    /\ first_selection = <<>>
    /\ first_diversity = FALSE
    /\ NoVideo
    /\ NoBatch
    /\ NoGui
    /\ segments \in SegmentLists
    /\ add_transitions \in BOOLEAN
    /\ normalize_audio \in BOOLEAN
    /\ add_title \in BOOLEAN
    /\ clips = <<>>
    /\ concatenated = <<>>
    /\ pc = "create_supercut"

\* lines 221-263: no segments: return None; else extract the clips, and
\* return None when none could be extracted
ExtractClips ==
    /\ pc = "create_supercut"
    /\ IF segments = <<>>
       THEN /\ supercut_path' = "none"
            /\ pc' = "returned"
            /\ UNCHANGED clips
       ELSE \E extracted \in [1..Len(segments) -> BOOLEAN] :
               /\ clips' = ExtractLoop(segments, 1, extracted, normalize_audio,
                                       add_title)
               /\ IF clips' = <<>>
                  THEN supercut_path' = "none" /\ pc' = "returned"
                  ELSE supercut_path' = supercut_path /\ pc' = "transitions"
    /\ UNCHANGED <<scenes, args, locals, first, resolver, video_paths,
                   all_processed_scenes, gui, segments, add_transitions,
                   normalize_audio, add_title, concatenated>>

\* lines 266-274: the transitions
AddTransitions ==
    /\ pc = "transitions"
    /\ concatenated' = IF add_transitions /\ Len(clips) > 1
                       THEN TransitionLoop(clips, 1, <<>>)
                       ELSE clips
    /\ pc' = "concatenate"
    /\ UNCHANGED <<scenes, args, locals, first, resolver, batch, gui, segments,
                   add_transitions, normalize_audio, add_title, clips>>

\* lines 277-310: concatenate, add the main title and write the file, and
\* return its path; None when one of these raises
WriteSupercut ==
    /\ pc = "concatenate"
    /\ supercut_path' \in SupercutPaths
    /\ pc' = "returned"
    /\ UNCHANGED <<scenes, args, locals, first, resolver, video_paths,
                   all_processed_scenes, gui, editing>>

NextEditing ==
    \/ ExtractClips
    \/ AddTransitions
    \/ WriteSupercut

SpecEditing == InitEditing /\ [][NextEditing]_vars

(***************************************************************************)
(* process_multiple_videos and create_supercut of main.py                  *)
(***************************************************************************)
\* largest number of scenes the detector reports for a video of a batch
MaxPerVideo == 1
\* the lengths in seconds of the scenes of a batch, and the target durations
BatchLengths == {4}
BatchTargets == {6, 8}
\* create_supercut(..., min_duration=3.0, max_duration=60.0, ...)
DefaultMinDuration == 3
DefaultMaxDuration == 60

\* what the detector reports for a video of a batch
BatchSceneLists ==
    { Boundaries(lengths, 0) :
        lengths \in UNION { [1..n -> BatchLengths] : n \in 0..MaxPerVideo } }

\* the largest number of classifications of a scene of scene_list
MaxClassifications(scene_list) ==
    LET counts == { Classifications(get_scene_info(scene_list)[i]) :
                        i \in 1..Len(scene_list) }
    IN  CHOOSE c \in counts \cup {1} : \A d \in counts : d <= c

\* process_video raises: one of its calls of analyze_scene does
ProcessVideoRaises(scene_list, results) ==
    \E i \in 1..Len(scene_list) :
        AnalyzeRaises(get_scene_info(scene_list)[i], results[i])

\* what process_video returns for the video at path when the detector
\* reports scene_list and the classifier gives results[i] for the i-th scene
process_video(path, scene_list, results) ==
    [i \in 1..Len(scene_list) |->
        analyze_scene([video_path |-> path] @@ get_scene_info(scene_list)[i],
                      results[i])]

\* (mutant) the scenes of a video are put in front of the earlier ones
ExtendAtFront(all, processed) == processed \o all

\* all_processed_scenes.extend(processed_scenes)
Extend(all, processed) == all \o processed

\* get_supercut_segments(selected_scenes)
get_supercut_segments(selected) ==
    [i \in 1..Len(selected) |->
        [video_path |-> selected[i].video_path,
         start_time |-> selected[i].start_time,
         end_time |-> selected[i].end_time,
         action_type |-> selected[i].action_type,
         action_confidence |-> selected[i].action_confidence]]

\* process_multiple_videos(video_paths, **kwargs) is about to be called;
\* video_path is the position in video_paths of the video that is next
InitBatch ==
    /\ scenes = <<>>
    /\ target_duration \in BatchTargets
    /\ min_confidence = 1
    /\ min_duration = DefaultMinDuration
    /\ max_duration = DefaultMaxDuration
    /\ ensure_diversity \in BOOLEAN
    /\ max_per_type = None
    /\ min_per_type = 1
    /\ NoLocals
    /\ run = 1
    /\ first_selection = <<>>
    /\ first_diversity = FALSE
    /\ NoVideo
    /\ \E n \in 0..MaxVideos : video_paths = [i \in 1..n |-> i]
    /\ all_processed_scenes = <<>>
    /\ supercut_path = "unset"
    /\ NoGui
    /\ segments = <<>>
    /\ add_transitions = TRUE
    /\ normalize_audio = TRUE
    /\ add_title = TRUE
    /\ clips = <<>>
    /\ concatenated = <<>>
    /\ pc = "batch"

\* lines 192-200: one iteration of the loop: process_video returns [] when
\* add_video rejects the file or no scene is detected, else the analysed
\* scenes, or it raises
ProcessNextVideo ==
    /\ pc = "batch"
    /\ video_path <= Len(video_paths)
    /\ \/ /\ processed_scenes' = <<>>
          /\ scene_info' = <<>>
          /\ all_processed_scenes' = Extend(all_processed_scenes, <<>>)
          /\ video_path' = video_path + 1
          /\ pc' = "batch"
       \/ \E scene_list \in BatchSceneLists :
          \E results \in [1..Len(scene_list) ->
                              [1..MaxClassifications(scene_list) -> ClassifierResults]] :
             IF ProcessVideoRaises(scene_list, results)
             THEN /\ pc' = "raised"
                  /\ UNCHANGED <<video_path, scene_info, processed_scenes,
                                 all_processed_scenes>>
             ELSE LET processed == process_video(video_paths[video_path],
                                                 scene_list, results)
                  IN  /\ processed_scenes' = processed
                      /\ scene_info' = processed
                      /\ all_processed_scenes' =
                             Extend(all_processed_scenes, processed)
                      /\ video_path' = video_path + 1
                      /\ pc' = "batch"
    /\ UNCHANGED <<scenes, args, locals, first, classify_calls, video_paths,
                   supercut_path, gui, editing>>

\* lines 202-218: after the loop: return None when there is no scene, else
\* call create_supercut, which starts the selection
AfterLoop ==
    /\ pc = "batch"
    /\ video_path > Len(video_paths)
    /\ IF all_processed_scenes = <<>>
       THEN /\ supercut_path' = "none"
            /\ pc' = "returned"
            /\ UNCHANGED scenes
       ELSE /\ scenes' = all_processed_scenes
            /\ pc' = "filter"
            /\ UNCHANGED supercut_path
    /\ UNCHANGED <<args, locals, first, resolver, video_paths, all_processed_scenes,
                   gui, editing>>

\* create_supercut, lines 144-150: return None when nothing was selected,
\* else hand the segments of the selection to the editor
SelectionReturned ==
    /\ pc = "done"
    /\ IF final_selection = <<>>
       THEN /\ supercut_path' = "none"
            /\ pc' = "returned"
            /\ UNCHANGED segments
       ELSE /\ segments' = get_supercut_segments(final_selection)
            /\ pc' = "create_supercut"
            /\ UNCHANGED supercut_path
    /\ UNCHANGED <<scenes, args, locals, first, resolver, video_paths,
                   all_processed_scenes, gui, add_transitions, normalize_audio,
                   add_title, clips, concatenated>>

NextBatch ==
    \/ ProcessNextVideo
    \/ AfterLoop
    \/ FilterStage
    \/ RankStage
    \/ DiversityStage
    \/ PackSkip
    \/ PackAccept
    \/ PackReturn
    \/ SelectionReturned
    \/ ExtractClips
    \/ AddTransitions
    \/ WriteSupercut

SpecBatch == InitBatch /\ [][NextBatch]_vars

(***************************************************************************)
(* Notions the properties are stated with                                  *)
(***************************************************************************)
RECURSIVE SumDurations(_)
SumDurations(ss) ==
    IF ss = <<>> THEN 0 ELSE Head(ss).duration + SumDurations(Tail(ss))

InSelection(scene) == \E k \in 1..Len(final_selection) : final_selection[k] = scene

\* the summed duration of the accepted scenes among the first j - 1 walked
AcceptedBefore(j) ==
    LET Test(scene) == InSelection(scene)
    IN  SumDurations(SelectSeq(SubSeq(selected_scenes, 1, j - 1), Test))

\* the scene at position j of the walked list fits on top of what was
\* accepted before it
Fits(j) ==
    5 * (AcceptedBefore(j) + selected_scenes[j].duration) <= 6 * target_duration

RECURSIVE IsSubsequence(_, _)
\* s is t with some elements left out
IsSubsequence(s, t) ==
    IF s = <<>> THEN TRUE
    ELSE IF t = <<>> THEN FALSE
    ELSE IF Head(s) = Head(t) THEN IsSubsequence(Tail(s), Tail(t))
    ELSE IsSubsequence(s, Tail(t))

(***************************************************************************)
(* C1  Packing bound: for a positive target_duration the summed duration   *)
(* of the accepted scenes is at most target_duration * 1.2 in every state  *)
(* of the loop, not only at its end.                                       *)
(***************************************************************************)
C1_PackingBound ==
    target_duration > 0 =>
        /\ 5 * SumDurations(final_selection) <= 6 * target_duration
        /\ current_duration = SumDurations(final_selection)

\* the tolerance is used up to the last unit: 6 accepted for a target of 5
C1_Witness ==
    /\ pc = "done"
    /\ target_duration > 0
    /\ SumDurations(final_selection) > target_duration
    /\ 5 * SumDurations(final_selection) = 6 * target_duration

(***************************************************************************)
(* C2  The walk stops right after the first acceptance that brings the     *)
(* total to target_duration or more: a scene is accepted only while the    *)
(* total is below the target, the acceptance that reaches the target ends  *)
(* the walk, and a walk that ends with scenes left unvisited has reached   *)
(* the target.                                                             *)
(***************************************************************************)
C2_StopsAtTarget ==
    [][ /\ (pc = "pack" /\ Len(final_selection') > Len(final_selection)) =>
            /\ SumDurations(final_selection) < target_duration
            /\ (SumDurations(final_selection') >= target_duration => pc' = "done")
            /\ (SumDurations(final_selection') < target_duration => pc' = "pack")
        /\ (pc = "pack" /\ pc' = "done" /\ idx' <= Len(selected_scenes)) =>
            SumDurations(final_selection') >= target_duration ]_vars

\* the walk ended on reaching the target with a scene left unvisited
C2_Witness ==
    /\ pc = "done"
    /\ idx <= Len(selected_scenes)
    /\ Len(final_selection) >= 2
    /\ SumDurations(final_selection) >= target_duration

(***************************************************************************)
(* C3  A scene that would push the total above target_duration * 1.2 is    *)
(* skipped and the walk goes on: every visited scene is in the selection   *)
(* exactly if it fitted on top of the scenes accepted before it, and the   *)
(* walk is over only when the target is reached or the list is exhausted.  *)
(***************************************************************************)
C3_SkipContinues ==
    /\ \A j \in 1..Len(selected_scenes) :
           j < idx => (InSelection(selected_scenes[j]) <=> Fits(j))
    /\ pc = "done" =>
           \/ idx > Len(selected_scenes)
           \/ SumDurations(final_selection) >= target_duration

\* a scene was skipped and a later one accepted
C3_Witness ==
    \E j, k \in 1..Len(selected_scenes) :
        /\ j < k
        /\ k < idx
        /\ ~InSelection(selected_scenes[j])
        /\ InSelection(selected_scenes[k])

(***************************************************************************)
(* C4  The returned list is a subsequence of the walked list: the accepted *)
(* scenes keep the order of the walked list, and a walked scene is missing *)
(* only if it did not fit when it was visited or lies behind the stop.     *)
(***************************************************************************)
C4_Subsequence ==
    /\ IsSubsequence(final_selection, selected_scenes)
    /\ \A j \in 1..Len(selected_scenes) :
           ~InSelection(selected_scenes[j]) => (j >= idx \/ ~Fits(j))

\* two scenes accepted, one skipped between them
C4_Witness ==
    /\ pc = "done"
    /\ Len(selected_scenes) >= 3
    /\ InSelection(selected_scenes[1])
    /\ ~InSelection(selected_scenes[2])
    /\ InSelection(selected_scenes[3])

(***************************************************************************)
(* C5  The walk terminates, it visits a scene at most once (the position   *)
(* only moves forward, one scene at a time), and when it is over the total *)
(* has reached target_duration or every walked scene was visited; a total  *)
(* below the target is returned like any other result.                     *)
(***************************************************************************)
C5_Terminates ==
    /\ [](pc = "pack" => <>(pc = "done"))
    /\ [][pc = "pack" => (idx' = idx \/ idx' = idx + 1)]_vars
    /\ [][(pc = "pack" /\ pc' = "pack") => idx' = idx + 1]_vars
    /\ [](pc = "done" =>
            \/ SumDurations(final_selection) >= target_duration
            \/ idx > Len(selected_scenes))

\* under-fill: the list is exhausted with the total below the target
C5_Witness ==
    /\ pc = "done"
    /\ selected_scenes # <<>>
    /\ idx > Len(selected_scenes)
    /\ Len(final_selection) < Len(selected_scenes)
    /\ SumDurations(final_selection) < target_duration

(***************************************************************************)
(* Notions of the stage functions' properties                              *)
(***************************************************************************)
Occurs(scene, ss) == \E k \in 1..Len(ss) : ss[k] = scene

\* the number of scenes of action type t in ss
CountOfType(ss, t) == Cardinality({ k \in 1..Len(ss) : ss[k].action_type = t })

(***************************************************************************)
(* C6  filter_action_scenes keeps a scene if and only if it is an action   *)
(* scene, its confidence is at least min_confidence and its duration lies  *)
(* in [min_duration, max_duration], both ends included; the kept scenes    *)
(* are in the order of the input.                                          *)
(***************************************************************************)
C6_FilterPredicate ==
    pc = "returned" =>
        /\ \A i \in 1..Len(scenes) :
               Occurs(scenes[i], filtered_scenes) <=>
                   /\ scenes[i].is_action_scene = TRUE
                   /\ scenes[i].action_confidence >= min_confidence
                   /\ scenes[i].duration >= min_duration
                   /\ scenes[i].duration <= max_duration
        /\ IsSubsequence(filtered_scenes, scenes)

\* a scene on both inclusive bounds is kept, a confident scene that is no
\* action scene is dropped in front of it
C6_Witness ==
    /\ pc = "returned"
    /\ Len(scenes) >= 2
    /\ ~scenes[1].is_action_scene
    /\ scenes[1].action_confidence > min_confidence
    /\ ~Occurs(scenes[1], filtered_scenes)
    /\ \E i \in 2..Len(scenes) :
        /\ scenes[i].action_confidence = min_confidence
        /\ scenes[i].duration = min_duration
        /\ scenes[i].duration = max_duration
        /\ Occurs(scenes[i], filtered_scenes)

(***************************************************************************)
(* C7  Monotonicity: the scenes kept with a min_confidence raised from c1  *)
(* to c2 >= c1 are among the scenes kept with c1, so there are no more of  *)
(* them.                                                                   *)
(***************************************************************************)
C7_FilterMonotone ==
    (pc = "returned" /\ run = 2) =>
        /\ \A k \in 1..Len(filtered_scenes) :
               Occurs(filtered_scenes[k], first_selection)
        /\ Len(filtered_scenes) <= Len(first_selection)

\* raising min_confidence dropped some of the scenes and kept others
C7_Witness ==
    /\ pc = "returned"
    /\ run = 2
    /\ filtered_scenes # <<>>
    /\ Len(filtered_scenes) < Len(first_selection)

(***************************************************************************)
(* C8  rank_scenes_by_action_intensity returns a permutation of its input  *)
(* in non-increasing order of confidence, and scenes of equal confidence   *)
(* keep the order they had in the input.                                   *)
(***************************************************************************)
C8_RankStable ==
    pc = "returned" =>
        /\ Len(ranked_scenes) = Len(scenes)
        /\ \A i \in 1..Len(scenes) : Occurs(scenes[i], ranked_scenes)
        /\ \A k, l \in 1..Len(ranked_scenes) :
               k < l =>
                   /\ ranked_scenes[k].action_confidence
                          >= ranked_scenes[l].action_confidence
                   /\ (ranked_scenes[k].action_confidence
                           = ranked_scenes[l].action_confidence
                       => ranked_scenes[k].scene_number
                              < ranked_scenes[l].scene_number)

\* the sort moved a scene in front of two scenes of equal confidence
C8_Witness ==
    /\ pc = "returned"
    /\ Len(scenes) >= 3
    /\ scenes[1].action_confidence = scenes[2].action_confidence
    /\ scenes[3].action_confidence > scenes[1].action_confidence
    /\ ranked_scenes = <<scenes[3], scenes[1], scenes[2]>>

(***************************************************************************)
(* C9  Idempotence.  As stated: a second call on the returned list, with   *)
(* the same target_duration, ensure_diversity=False and filters that admit *)
(* every scene, returns the same list in the same order.                   *)
(***************************************************************************)
C9_Original ==
    (run = 2 /\ pc = "done") => final_selection = first_selection

\* C9 as amended: it returns the same list when the first call was made
\* with ensure_diversity=False too.
C9_Idempotent ==
    (run = 2 /\ pc = "done" /\ ~first_diversity) => final_selection = first_selection

\* the second call walked the list of the first call, two scenes of equal
\* confidence in it, and returned it
C9_Witness ==
    /\ run = 2
    /\ pc = "done"
    /\ ~first_diversity
    /\ Len(first_selection) >= 2
    /\ first_selection[1].action_confidence = first_selection[2].action_confidence
    /\ selected_scenes = first_selection
    /\ final_selection = first_selection

TypesOf(ss) == { ss[k].action_type : k \in 1..Len(ss) }

C11_DiversityFloor ==
    (pc = "done" /\ run = 1 /\ ensure_diversity /\ filtered_scenes # <<>>) =>
        LET K == Cardinality(TypesOf(filtered_scenes))
        IN  /\ Len(selected_scenes) >= K
            /\ \A i, j \in 1..K :
                   i # j => selected_scenes[i].action_type # selected_scenes[j].action_type
            /\ \A g \in 1..K :
                   \A k \in 1..Len(filtered_scenes) :
                       filtered_scenes[k].action_type = selected_scenes[g].action_type
                           => filtered_scenes[k].action_confidence
                                  <= selected_scenes[g].action_confidence
            /\ \A t \in TypesOf(filtered_scenes) :
                   \/ \E k \in 1..Len(final_selection) : final_selection[k].action_type = t
                   \/ \E g \in 1..K :
                          /\ selected_scenes[g].action_type = t
                          /\ \/ g < idx /\ ~Fits(g)
                             \/ g >= idx /\ current_duration >= target_duration

\* both types are in the selection although the guaranteed scene of the
\* second one has a lower confidence than a surplus scene of the first
C11_Witness ==
    /\ pc = "done" /\ run = 1 /\ ensure_diversity
    /\ Cardinality(TypesOf(filtered_scenes)) = 2
    /\ Cardinality(TypesOf(final_selection)) = 2
    /\ selected_scenes # ranked_scenes
    /\ Len(final_selection) = 3

(***************************************************************************)
(* C12  With ensure_diversity=False the balancer is bypassed: the list the *)
(* packer walks is the ranker's output, and the returned selection is the  *)
(* packing of the ranked, filtered scenes, whatever the number of scenes   *)
(* of one action type in it.                                               *)
(***************************************************************************)
RECURSIVE Packed(_, _, _)
\* the scenes a walk over ss accepts when it starts with the duration cur
Packed(ss, cur, target) ==
    IF ss = <<>> THEN <<>>
    ELSE IF 5 * (cur + Head(ss).duration) > 6 * target
         THEN Packed(Tail(ss), cur, target)
         ELSE IF cur + Head(ss).duration >= target
              THEN <<Head(ss)>>
              ELSE <<Head(ss)>> \o Packed(Tail(ss), cur + Head(ss).duration, target)

C12_Bypass ==
    /\ (pc \in {"pack", "done"} /\ ~ensure_diversity /\ filtered_scenes # <<>>)
           => selected_scenes = ranked_scenes
    /\ (pc = "done" /\ ~ensure_diversity)
           => final_selection =
                  Packed(rank_scenes_by_action_intensity(
                             filter_action_scenes(scenes, min_confidence,
                                                  min_duration, max_duration)),
                         0, target_duration)

\* a bypassed call returned several scenes, all of one action type, from
\* scenes of two types, where the balancer would have given the walk
\* another list
C12_Witness ==
    /\ pc = "done" /\ run = 1 /\ ~ensure_diversity
    /\ selected_scenes # ensure_action_diversity(ranked_scenes, max_per_type,
                                                 min_per_type)
    /\ Len(final_selection) >= 2
    /\ Cardinality(TypesOf(final_selection)) = 1
    /\ Cardinality(TypesOf(ranked_scenes)) = 2

(***************************************************************************)
(* C13  Empty results.  A call whose scene list is empty, or whose filter  *)
(* leaves no scene, returns the empty list with no duration accumulated    *)
(* and raises nothing; on the empty list the filter, the ranker and the    *)
(* balancer return the empty list, and the balancer does not divide by its *)
(* count of action types.                                                  *)
(***************************************************************************)
C13_EmptyResult ==
    /\ pc # "raised"
    /\ (pc = "done" /\ filtered_scenes = <<>>) =>
        /\ final_selection = <<>>
        /\ current_duration = 0
        /\ SumDurations(final_selection) = 0
        /\ filter_action_scenes(filtered_scenes, min_confidence, min_duration,
                                max_duration) = <<>>
        /\ rank_scenes_by_action_intensity(filtered_scenes) = <<>>
        /\ ~DiversityRaises(filtered_scenes, max_per_type)
        /\ ensure_action_diversity(filtered_scenes, max_per_type, min_per_type) = <<>>
        /\ Packed(filtered_scenes, 0, target_duration) = <<>>

\* the call had scenes and a positive target, and none survived the filter
C13_Witness ==
    /\ pc = "done" /\ run = 1
    /\ scenes # <<>>
    /\ target_duration > 0
    /\ filtered_scenes = <<>>
    /\ final_selection = <<>>

(***************************************************************************)
(* C14  Configuration errors are rejected up front: a call with            *)
(* min_duration > max_duration or target_duration <= 0 ends in a           *)
(* configuration error before any stage has run, so it never comes to the  *)
(* ranker, the balancer or the packer and never returns a list.            *)
(* select_sequences_for_supercut has no such test: the call runs its       *)
(* stages and returns [] like a call that found no candidates.             *)
(***************************************************************************)
ConfigurationError == target_duration <= 0 \/ min_duration > max_duration

C14_ConfigRejected ==
    (run = 1 /\ ConfigurationError) => pc \in {"filter", "config_error"}

(***************************************************************************)
(* C15  Input validation: a malformed scene, here one whose                *)
(* action_confidence lies outside [0, 1], is dropped on its own and is     *)
(* never in the returned selection.  The filter compares the confidence    *)
(* with min_confidence only, so a scene with a confidence above 1.0 passes *)
(* it, is ranked first and is selected.                                    *)
(***************************************************************************)
Malformed(scene) == scene.action_confidence \notin Confidences

C15_MalformedDropped ==
    (run = 1 /\ pc = "done") =>
        \A k \in 1..Len(final_selection) : ~Malformed(final_selection[k])

(***************************************************************************)
(* C16  The stages are pure.  From the start of a call to its return the   *)
(* caller's scene list keeps its length, its order and the fields of every *)
(* record; and each stage leaves the list it was given as it is and puts   *)
(* its result in a list of its own.                                        *)
(***************************************************************************)
C16_StagesPure ==
    [][ /\ pc # "done" => scenes' = scenes
        /\ pc \in {"rank", "diversity", "pack"} => filtered_scenes' = filtered_scenes
        /\ pc \in {"diversity", "pack"} => ranked_scenes' = ranked_scenes
        /\ pc = "pack" => selected_scenes' = selected_scenes ]_vars

\* a call has returned after its ranker, its balancer and its packer each
\* produced a list that differs from the one it was given
C16_Witness ==
    /\ pc = "done" /\ run = 1
    /\ Len(scenes) = MaxScenes
    /\ ranked_scenes # scenes
    /\ selected_scenes # ranked_scenes
    /\ final_selection # selected_scenes
    /\ final_selection # <<>>

(***************************************************************************)
(* C17  Stages only drop or reorder scenes.  With or without the balancer, *)
(* every record of the walked list and of the selection is a record of the *)
(* input list with all its fields, and occurs there no more often than in  *)
(* the input: the two passes of the balancer never emit one scene twice.   *)
(***************************************************************************)
Occurrences(scene, ss) == Cardinality({ k \in 1..Len(ss) : ss[k] = scene })

OnlyScenesOf(ss, input) ==
    \A k \in 1..Len(ss) : Occurrences(ss[k], ss) <= Occurrences(ss[k], input)

C17_DropOrReorder ==
    /\ OnlyScenesOf(selected_scenes, scenes)
    /\ OnlyScenesOf(final_selection, scenes)

\* a balanced call returned a guaranteed scene and a surplus scene of the
\* same action type next to a scene of the other type
C17_Witness ==
    /\ pc = "done" /\ run = 1 /\ ensure_diversity
    /\ Len(final_selection) = 3
    /\ Cardinality(TypesOf(final_selection)) = 2
    /\ final_selection[1].action_type # final_selection[2].action_type

(***************************************************************************)
(* C18  The resolver keeps cardinality and order: process_video comes to   *)
(* return a list with exactly one analysed record per detected scene, in   *)
(* the order of detection, whatever the classification of a scene, the     *)
(* result "unknown" with confidence 0 included.  A scene of at most 10     *)
(* seconds whose classification is that result makes analyze_scene raise   *)
(* KeyError, and process_video returns no list.                            *)
(***************************************************************************)
C18_ResolverKeepsAll ==
    /\ pc # "raised"
    /\ pc = "returned" =>
        /\ Len(processed_scenes) = Len(scene_info)
        /\ \A i \in 1..Len(processed_scenes) : processed_scenes[i].scene_number = i

(***************************************************************************)
(* Notions for the two passes of the balancer                              *)
(***************************************************************************)
IsRanked(ss) ==
    \A i, j \in 1..Len(ss) :
        i < j => ss[i].action_confidence >= ss[j].action_confidence

\* the position at which the action type t first appears in ss
FirstIndex(ss, t) ==
    CHOOSE i \in 1..Len(ss) :
        /\ ss[i].action_type = t
        /\ \A j \in 1..(i - 1) : ss[j].action_type # t

\* the number of scenes the floor pass takes from ss
FloorCount(ss, min_pt) ==
    LET Taken(t) == Min(min_pt, CountOfType(ss, t))
        RECURSIVE Sum(_)
        Sum(T) == IF T = {} THEN 0
                  ELSE LET t == CHOOSE x \in T : TRUE
                       IN  Taken(t) + Sum(T \ {t})
    IN  Sum(TypesOf(ss))

\* the rank of a scene of ss among the scenes of its action type
RankInType(ss, scene) ==
    Cardinality({ k \in 1..scene.scene_number :
                      ss[k].action_type = scene.action_type })

(***************************************************************************)
(* C19  Phase B ordering.  The surplus scenes that follow the Phase A      *)
(* block of the output of ensure_action_diversity are in non-increasing    *)
(* confidence order.  Two surplus scenes of equal confidence and of one    *)
(* action type are in the order of the input list; two of different types  *)
(* are in the order in which their types first appear in the input list,   *)
(* which need not be the order of the two scenes in the ranked input.      *)
(***************************************************************************)
\* the claim as it was made: ties are in the order of the ranked input
C19_Original ==
    (pc = "returned" /\ IsRanked(scenes)) =>
        LET A == FloorCount(scenes, min_per_type)
        IN  \A p, q \in (A + 1)..Len(selected_scenes) :
                p < q =>
                    /\ selected_scenes[p].action_confidence
                           >= selected_scenes[q].action_confidence
                    /\ selected_scenes[p].action_confidence
                           = selected_scenes[q].action_confidence
                       => selected_scenes[p].scene_number
                              < selected_scenes[q].scene_number

C19_PhaseBOrder ==
    pc = "returned" =>
        LET A == FloorCount(scenes, min_per_type)
        IN  \A p, q \in (A + 1)..Len(selected_scenes) :
                p < q =>
                    /\ selected_scenes[p].action_confidence
                           >= selected_scenes[q].action_confidence
                    /\ selected_scenes[p].action_confidence
                           = selected_scenes[q].action_confidence
                       => IF selected_scenes[p].action_type
                               = selected_scenes[q].action_type
                          THEN selected_scenes[p].scene_number
                                   < selected_scenes[q].scene_number
                          ELSE FirstIndex(scenes, selected_scenes[p].action_type)
                                   < FirstIndex(scenes, selected_scenes[q].action_type)

\* a ranked list balanced with min_per_type 1: the two surplus scenes have
\* the same confidence and different types, and the one that comes later in
\* the ranked list comes first in the output
C19_Witness ==
    /\ pc = "returned" /\ IsRanked(scenes) /\ min_per_type = 1
    /\ Len(selected_scenes) = 4
    /\ selected_scenes[3].action_confidence = selected_scenes[4].action_confidence
    /\ selected_scenes[3].action_type # selected_scenes[4].action_type
    /\ selected_scenes[3].scene_number > selected_scenes[4].scene_number

(***************************************************************************)
(* C20  Phase A floor.  The output of ensure_action_diversity on a ranked  *)
(* list begins with a block that holds, for each action type in the order  *)
(* of its first appearance, the min(min_per_type, size of the type)        *)
(* highest-ranked scenes of the type in rank order, whatever the           *)
(* confidence of the surplus scenes that follow.                           *)
(***************************************************************************)
C20_PhaseAFloor ==
    (pc = "returned" /\ IsRanked(scenes)) =>
        LET A == FloorCount(scenes, min_per_type)
            block == SubSeq(selected_scenes, 1, Min(A, Len(selected_scenes)))
        IN  /\ Len(block) = A
            /\ \A t \in TypesOf(scenes) :
                   CountOfType(block, t) = Min(min_per_type, CountOfType(scenes, t))
            /\ \A p \in 1..A :
                   /\ Occurs(block[p], scenes)
                   /\ RankInType(scenes, block[p]) <= min_per_type
                   /\ \A q \in (p + 1)..A :
                          IF block[p].action_type = block[q].action_type
                          THEN block[p].scene_number < block[q].scene_number
                          ELSE FirstIndex(scenes, block[p].action_type)
                                   < FirstIndex(scenes, block[q].action_type)

\* the block of two types holds a guaranteed scene of a lower confidence
\* than a surplus scene that follows the block
C20_Witness ==
    /\ pc = "returned" /\ IsRanked(scenes) /\ min_per_type >= 1
    /\ Cardinality(TypesOf(scenes)) = 2
    /\ LET A == FloorCount(scenes, min_per_type)
       IN  \E p \in 1..A : \E q \in (A + 1)..Len(selected_scenes) :
               selected_scenes[p].action_confidence
                   < selected_scenes[q].action_confidence

(***************************************************************************)
(* C21  The derived limit.  Called without max_per_type on N > 0 scenes of *)
(* K action types, ensure_action_diversity uses the limit                  *)
(* max(floor(1.5 * N / K), min_per_type + 1): the output holds of every    *)
(* type as many scenes as the input has, up to that limit.  On the empty   *)
(* list the limit is the number of scenes, 0, and nothing is divided.      *)
(***************************************************************************)
\* floor(1.5 * n / k) for k > 0: the largest m with m * 2 * k <= 3 * n
FloorOfAverageAndHalf(n, k) ==
    CHOOSE m \in 0..(2 * n) : m * 2 * k <= 3 * n /\ (m + 1) * 2 * k > 3 * n

C22_WindowsCover ==
    (/\ pc \in {"returned", "raised"}
     /\ IsLongScene(scene_info[1])
     /\ scene_info[1].duration = scene_info[1].end_time - scene_info[1].start_time)
        => LET w == classify_calls
               n == Len(w)
           IN  /\ n > 0
               /\ w[1].start_time = scene_info[1].start_time
               /\ \A k \in 1..(n - 1) :
                    /\ w[k].end_time - w[k].start_time = segment_duration
                    /\ w[k + 1].start_time = w[k].end_time
               /\ \A k \in 1..n : w[k].end_time - w[k].start_time >= MinSegment
               /\ w[n].end_time = scene_info[1].end_time

(***************************************************************************)
(* C23  Best-window selection.  After analyze_scene a scene of more than   *)
(* 10.0 s has its action_type, action_confidence and is_action_scene from  *)
(* one window, the earliest of those of the highest confidence; a scene of *)
(* at most 10.0 s gets the one classification of its whole time range.     *)
(* The second part fails in the code: when that one classification is the  *)
(* result classify_action gives for unreadable frames, the scene gets      *)
(* nothing, the call raises KeyError.                                      *)
(***************************************************************************)
C23_BestWindow ==
    LET scene == scene_info[1]
        w == classify_calls
    IN  /\ (pc \in {"returned", "raised"} /\ ~IsLongScene(scene)) =>
            /\ pc = "returned"
            /\ Len(w) = 1
            /\ w[1].start_time = scene.start_time
            /\ w[1].end_time = scene.end_time
            /\ processed_scenes[1].action_type = w[1].result.action_type
            /\ processed_scenes[1].action_confidence = w[1].result.confidence
            /\ processed_scenes[1].is_action_scene = w[1].result.is_action
        /\ (pc \in {"returned", "raised"} /\ IsLongScene(scene) /\ w # <<>>) =>
            /\ pc = "returned"
            /\ \E k \in 1..Len(w) :
                /\ \A j \in 1..Len(w) : w[j].result.confidence <= w[k].result.confidence
                /\ \A j \in 1..(k - 1) : w[j].result.confidence < w[k].result.confidence
                /\ processed_scenes[1].action_type = w[k].result.action_type
                /\ processed_scenes[1].action_confidence = w[k].result.confidence
                /\ processed_scenes[1].is_action_scene = w[k].result.is_action

(***************************************************************************)
(* C24  No residual sub-segments.  The scenes that process_video returns,  *)
(* the ones handed to the filter stage, carry no per-window results.       *)
(* The code leaves them attached: a scene of more than 10.0 s keeps the    *)
(* results of all its windows under 'segment_results'.                     *)
(***************************************************************************)
C24_NoSubSegments ==
    pc = "returned" =>
        \A i \in 1..Len(processed_scenes) :
            "segment_results" \notin DOMAIN processed_scenes[i]

(***************************************************************************)
(* C25  Resolver fallback.  A scene whose duration field is above 10.0 s   *)
(* but for which the loop produces no window makes analyze_scene return    *)
(* with a classification of the whole scene.  The code has no such         *)
(* fallback: max() of the empty list of window results raises ValueError.  *)
(***************************************************************************)
C25_FallbackReturns ==
    LET scene == scene_info[1]
    IN  (/\ pc \in {"returned", "raised"}
         /\ IsLongScene(scene)
         /\ Segments(scene.start_time, scene.end_time) = <<>>)
            => /\ pc = "returned"
               /\ "action_type" \in DOMAIN processed_scenes[1]

\* the fields analyze_scene must leave alone, and the ones it may write
FrameFields == {"scene_number", "video_path", "start_time", "end_time", "duration"}
ClassificationFields ==
    {"action_type", "action_confidence", "is_action_scene", "segment_results",
     "all_scores"}

(***************************************************************************)
(* C26  Resolver frame.  A call of analyze_scene leaves scene_number,      *)
(* video_path, start_time, end_time and duration of the scene as they      *)
(* were, in the record it updates and in the one it returns, and the only  *)
(* fields it adds are classification fields; this also when the call       *)
(* raises, and when the winning window is only a part of the scene.        *)
(***************************************************************************)
C26_ResolverFrame ==
    [][CallAnalyze =>
        /\ \A f \in FrameFields : scene_info'[1][f] = scene_info[1][f]
        /\ DOMAIN scene_info'[1] \ DOMAIN scene_info[1] \subseteq ClassificationFields
        /\ pc' = "returned" =>
            /\ processed_scenes'[1] = scene_info'[1]
            /\ FrameFields \subseteq DOMAIN processed_scenes'[1]]_vars

\* a scene from second 3 to second 15 returned with the classification of
\* its second window, which is a part of the scene only
C26_Witness ==
    /\ pc = "returned"
    /\ IsLongScene(scene_info[1])
    /\ scene_info[1].start_time = 3
    /\ scene_info[1].end_time = 15
    /\ Len(classify_calls) = 3
    /\ classify_calls[2].result.confidence > classify_calls[1].result.confidence
    /\ classify_calls[2].result.confidence >= classify_calls[3].result.confidence
    /\ processed_scenes[1].action_confidence = classify_calls[2].result.confidence
    /\ classify_calls[2].end_time < scene_info[1].end_time

(***************************************************************************)
(* C27  Packer maximality on under-fill.  When the packing walk has ended  *)
(* with less than target_duration accepted, it has walked the whole of its *)
(* input, and every scene of the input that is not in the result would     *)
(* lift the accepted total above target_duration * 1.2.  When the          *)
(* durations of all input scenes sum to less than the target, the result   *)
(* is the whole input.                                                     *)
(***************************************************************************)
C27_UnderFillMaximal ==
    (pc = "done" /\ current_duration < target_duration) =>
        /\ idx > Len(selected_scenes)
        /\ current_duration = SumDurations(final_selection)
        /\ \A j \in 1..Len(selected_scenes) :
            ~InSelection(selected_scenes[j]) =>
                5 * (current_duration + selected_scenes[j].duration)
                    > 6 * target_duration
        /\ SumDurations(selected_scenes) < target_duration =>
            final_selection = selected_scenes

\* an under-filled result of two scenes with a third scene left out
C27_Witness ==
    /\ pc = "done"
    /\ current_duration < target_duration
    /\ Len(final_selection) = 2
    /\ \E j \in 1..Len(selected_scenes) : ~InSelection(selected_scenes[j])

\* the processing threads that are alive
AliveThreads == { t \in 1..Len(threads) : threads[t] = "alive" }

(***************************************************************************)
(* C28  GUI single run.  At most one processing thread is alive at any     *)
(* time, and while one is alive the Process button is disabled, so no      *)
(* second call of process_multiple_videos runs on the same application     *)
(* object.  The code does not keep this: cancel_processing enables the     *)
(* Process button again without stopping the thread.                       *)
(***************************************************************************)
C28_SingleRun ==
    /\ Cardinality(AliveThreads) <= 1
    /\ AliveThreads # {} => process_button = "disabled"

(***************************************************************************)
(* C30  Transitions.  With add_transitions and more than one extracted     *)
(* clip, the list handed to the concatenation has the extracted clips in   *)
(* their order, every clip but the first with a fade-in and every clip but *)
(* the last with a fade-out.  The code gives the fade-out to the first     *)
(* clip only: of every later transition it keeps the second clip and       *)
(* throws away the faded-out first one.                                    *)
(***************************************************************************)
C30_Transitions ==
    (pc \in {"concatenate", "returned"} /\ add_transitions /\ Len(clips) > 1) =>
        LET n == Len(clips)
        IN  /\ Len(concatenated) = n
            /\ \A k \in 1..n : concatenated[k].segment = clips[k].segment
            /\ \A k \in 2..n : concatenated[k].fadein
            /\ \A k \in 1..(n - 1) : concatenated[k].fadeout

\* the scenes of all are in the order of their videos, and those of one video
\* in the order of their detection
BatchOrdered(all) ==
    \A i, j \in 1..Len(all) :
        i < j => \/ all[i].video_path < all[j].video_path
                 \/ /\ all[i].video_path = all[j].video_path
                    /\ all[i].scene_number < all[j].scene_number

\* create_supercut of main.py is running its selection or its editor
InCreateSupercut ==
    pc \in {"filter", "rank", "diversity", "pack", "done", "create_supercut",
            "transitions", "concatenate"}

\* one iteration of the loop over video_paths that does not raise takes the
\* scenes of the video at hand, none of them included, to the end of
\* all_processed_scenes and goes on to the next video
LoopStepExtends ==
    (pc = "batch" /\ video_path <= Len(video_paths) /\ pc' # "raised") =>
        /\ pc' = "batch"
        /\ video_path' = video_path + 1
        /\ all_processed_scenes' = all_processed_scenes \o processed_scenes'
        /\ \A i \in 1..Len(processed_scenes') :
            processed_scenes'[i].video_path = video_paths[video_path]

====
